---- MODULE Spec2Model ----
(***************************************************************************)
(* One run of the monthly sales dashboard script (src/app.py).             *)
(*                                                                         *)
(* The script is executed top to bottom for given widget values.  A run   *)
(* is modelled as a sequence of steps, one per section of the script;      *)
(* pc is the section about to be executed.                                 *)
(*                                                                         *)
(* Names.  The source uses Korean column names and selector values; the    *)
(* module uses ASCII stand-ins (styling options are left out):             *)
(*    column  "월" = "month",  "매출액" = "sales",                          *)
(*            "전년동월" = "prev", "증감률" = "rate",                       *)
(*            "매출액_단위" = sales_unit, "전년동월_단위" = prev_unit,      *)
(*            "누적매출" = cum, "누적매출_단위" = cum_unit                  *)
(*    focus   "전체" = "all", "추세" = "trend", "증감률" = "rate",          *)
(*            "누적" = "cum", "히트맵" = "heatmap"                          *)
(*                                                                         *)
(* Text.  A string is a sequence of character codes (ASCII), so that       *)
(* strip, replace, slice, comparison and number parsing are computed.      *)
(* A CSV cell is [na, s]: na marks a missing value (NaN/None).  Numeric    *)
(* text is read as a signed decimal literal; exponents, "inf" and other    *)
(* spellings are not among the inputs.                                     *)
(*                                                                         *)
(* Numbers.  A number is an exact decimal [nan, m, e] standing for         *)
(* m * 10^(-e), kept normalised (m not divisible by 10, or m = e = 0).     *)
(* Quotients that are not decimals (means, ratios) are kept as             *)
(* [num, den] pairs.                                                       *)
(***************************************************************************)
EXTENDS Integers, Sequences, FiniteSets, TLC

\* Largest number of data rows of an uploaded CSV.
MaxRows == 2

VARIABLES
    uploaded,    \* st.sidebar.file_uploader: the CSV, or no file
    unit_div,    \* st.sidebar.selectbox "display unit"
    goal,        \* st.sidebar.number_input "annual goal"
    focus,       \* st.sidebar.selectbox "view mode"
    pc,          \* section of the script about to run
    has_data,    \* set by the try/except around load_data
    df,          \* the table returned by load_data
    out,         \* the elements rendered so far, in order
    kpi,         \* the scalars of section 3
    figs,        \* the figures built so far
    preview,     \* the data preview panel
    clicked,     \* the export button that fired in this run ("" for none)
    exc          \* the exception that ended the run ("" for none)

vars == <<uploaded, unit_div, goal, focus, pc, has_data, df, out, kpi, figs, preview, clicked, exc>>

-----------------------------------------------------------------------------
(* Text *)

Str(s) == [na |-> FALSE, s |-> s]
NA == [na |-> TRUE, s |-> <<>>]

\* str.isspace for the ASCII range: tab, LF, VT, FF, CR, FS..US, space
IsSpace(c) == c \in {9, 10, 11, 12, 13, 28, 29, 30, 31, 32}

RECURSIVE LStrip(_)
LStrip(s) ==
    IF s # <<>> /\ IsSpace(Head(s)) THEN LStrip(Tail(s)) ELSE s

RECURSIVE RStrip(_)
RStrip(s) ==
    IF s # <<>> /\ IsSpace(s[Len(s)]) THEN RStrip(SubSeq(s, 1, Len(s) - 1)) ELSE s

\* str.strip()
Strip(s) == RStrip(LStrip(s))

\* str.replace(c, "") for a one-character pattern
RemoveChar(s, c) == SelectSeq(s, LAMBDA x : x # c)

Min2(a, b) == IF a < b THEN a ELSE b

\* s[a:b] for 0 <= a <= b
Slice(s, a, b) == SubSeq(s, a + 1, Min2(b, Len(s)))

\* a < b, comparing code point by code point (Python str ordering)
RECURSIVE StrLess(_, _)
StrLess(a, b) ==
    IF b = <<>> THEN FALSE
    ELSE IF a = <<>> THEN TRUE
    ELSE IF Head(a) # Head(b) THEN Head(a) < Head(b)
    ELSE StrLess(Tail(a), Tail(b))

\* str(nan)
NanText == <<110, 97, 110>>

-----------------------------------------------------------------------------
(* Numbers *)

NaN == [nan |-> TRUE, m |-> 0, e |-> 0]

RECURSIVE Pow10(_)
Pow10(n) == IF n = 0 THEN 1 ELSE 10 * Pow10(n - 1)

RECURSIVE Normalize(_)
Normalize(d) ==
    IF d.m = 0 THEN [nan |-> FALSE, m |-> 0, e |-> 0]
    ELSE IF d.m % 10 = 0 THEN Normalize([d EXCEPT !.m = d.m \div 10, !.e = d.e - 1])
    ELSE d

Dec(m, e) == Normalize([nan |-> FALSE, m |-> m, e |-> e])

Max2(a, b) == IF a > b THEN a ELSE b

\* the mantissa of d at exponent e >= d.e
Align(d, e) == d.m * Pow10(e - d.e)

DecAdd(a, b) ==
    IF a.nan \/ b.nan THEN NaN
    ELSE LET e == Max2(a.e, b.e) IN Dec(Align(a, e) + Align(b, e), e)

DecLess(a, b) ==
    LET e == Max2(a.e, b.e) IN Align(a, e) < Align(b, e)

\* d * 10^k
Shift(d, k) == IF d.nan THEN NaN ELSE Dec(d.m, d.e - k)

IsDigit(c) == c \in 48..57

RECURSIVE DigitsVal(_)
DigitsVal(s) ==
    IF s = <<>> THEN 0 ELSE 10 * DigitsVal(SubSeq(s, 1, Len(s) - 1)) + (s[Len(s)] - 48)

AllDigits(s) == \A i \in 1..Len(s) : IsDigit(s[i])

\* index of the first "." of s, or Len(s) + 1
DotPos(s) ==
    IF \E i \in 1..Len(s) : s[i] = 46
    THEN CHOOSE i \in 1..Len(s) : s[i] = 46 /\ \A j \in 1..(i - 1) : s[j] # 46
    ELSE Len(s) + 1

\* an unsigned decimal literal: digits, optionally a "." and digits
ParseUnsigned(s) ==
    LET p == DotPos(s)
        ip == SubSeq(s, 1, p - 1)
        fp == SubSeq(s, p + 1, Len(s))
    IN IF AllDigits(ip) /\ AllDigits(fp) /\ Len(ip) + Len(fp) > 0
       THEN Dec(DigitsVal(ip \o fp), Len(fp))
       ELSE NaN

\* pd.to_numeric(..., errors="coerce") of one cell: the number a literal
\* denotes, NaN for a missing cell and for text that is no number
ToNumeric(cell) ==
    IF cell.na THEN NaN
    ELSE LET s == Strip(cell.s) IN
         IF s = <<>> THEN NaN
         ELSE IF Head(s) = 45
              THEN LET u == ParseUnsigned(Tail(s)) IN
                   IF u.nan THEN NaN ELSE Dec(0 - u.m, u.e)
         ELSE IF Head(s) = 43 THEN ParseUnsigned(Tail(s))
         ELSE ParseUnsigned(s)

-----------------------------------------------------------------------------
(* 1) Sidebar: the widget values a run starts from *)

\* unit_label_map.keys()
UnitOptions == {1, 1000, 1000000}

\* options of the "view mode" selectbox
FocusOptions == {"all", "trend", "rate", "cum", "heatmap"}

\* values typed into the "annual goal" number_input (default 200000000)
GoalValues == {0 - 1000000, 0, 200000000}

\* the required columns, in the order load_data checks them
need == <<"month", "sales", "prev", "rate">>
Need == {need[i] : i \in 1..Len(need)}

Row(mo, sa, pr, ra) == [month |-> mo, sales |-> sa, prev |-> pr, rate |-> ra]

\* the example table load_data builds when nothing is uploaded
SampleRows == <<
    Row(<<50,48,50,52,45,48,49>>, <<49,50,48,48,48,48,48,48>>, <<49,48,53,48,48,48,48,48>>, <<49,52,46,51>>),
    Row(<<50,48,50,52,45,48,50>>, <<49,51,53,48,48,48,48,48>>, <<49,49,50,48,48,48,48,48>>, <<50,48,46,53>>),
    Row(<<50,48,50,52,45,48,51>>, <<49,49,48,48,48,48,48,48>>, <<49,50,56,48,48,48,48,48>>, <<45,49,52,46,49>>),
    Row(<<50,48,50,52,45,48,52>>, <<49,56,48,48,48,48,48,48>>, <<49,53,50,48,48,48,48,48>>, <<49,56,46,52>>),
    Row(<<50,48,50,52,45,48,53>>, <<50,49,48,48,48,48,48,48>>, <<49,56,53,48,48,48,48,48>>, <<49,51,46,53>>),
    Row(<<50,48,50,52,45,48,54>>, <<49,57,48,48,48,48,48,48>>, <<49,55,48,48,48,48,48,48>>, <<49,49,46,56>>),
    Row(<<50,48,50,52,45,48,55>>, <<49,55,53,48,48,48,48,48>>, <<49,54,48,48,48,48,48,48>>, <<57,46,52>>),
    Row(<<50,48,50,52,45,48,56>>, <<50,50,48,48,48,48,48,48>>, <<50,48,48,48,48,48,48,48>>, <<49,48,46,48>>),
    Row(<<50,48,50,52,45,48,57>>, <<50,52,48,48,48,48,48,48>>, <<50,49,53,48,48,48,48,48>>, <<49,49,46,54>>),
    Row(<<50,48,50,52,45,49,48>>, <<50,48,48,48,48,48,48,48>>, <<49,57,56,48,48,48,48,48>>, <<49,46,48>>),
    Row(<<50,48,50,52,45,49,49>>, <<50,51,48,48,48,48,48,48>>, <<50,49,48,48,48,48,48,48>>, <<57,46,53>>),
    Row(<<50,48,50,52,45,49,50>>, <<50,53,48,48,48,48,48,48>>, <<50,51,53,48,48,48,48,48>>, <<54,46,52>>)
>>

\* The data rows an uploaded CSV is made of (text as written in the file):
\*   "2023-01", "30", "20", "50%"
\*   "2024-01", "10", "20", "-50"
\*   " 2024-01", "5", "4", "12.5%"     same month once stripped
\*   "2024-02", "x", "9", "1"          sales is no number
\*   "", "7", "7", "0"                 month is missing
\*   "2024-02", "8", "", "1%"          prev is missing
CsvRows == {
    Row(<<50,48,50,51,45,48,49>>, <<51,48>>, <<50,48>>, <<53,48,37>>),
    Row(<<50,48,50,52,45,48,49>>, <<49,48>>, <<50,48>>, <<45,53,48>>),
    Row(<<32,50,48,50,52,45,48,49>>, <<53>>, <<52>>, <<49,50,46,53,37>>),
    Row(<<50,48,50,52,45,48,50>>, <<120>>, <<57>>, <<49>>),
    Row(<<>>, <<55>>, <<55>>, <<48>>),
    Row(<<50,48,50,52,45,48,50>>, <<56>>, <<>>, <<49,37>>)
}

\* the header of an uploaded CSV: all four columns, or one of them left out
Headers == {Need} \cup {Need \ {c} : c \in Need}

NoFile == [present |-> FALSE, cols |-> {}, rows |-> <<>>]

Project(r, cols) == [c \in cols |-> r[c]]

CsvTables == UNION {[1..n -> CsvRows] : n \in 0..MaxRows}

CsvFiles ==
    {[present |-> TRUE, cols |-> h, rows |-> [i \in 1..Len(rs) |-> Project(rs[i], h)]] :
        h \in Headers, rs \in CsvTables}

-----------------------------------------------------------------------------
(* 2) Data load and cleaning *)

\* text pd.read_csv takes for a missing value: "", "NA", "nan"
NaValues == {<<>>, <<78, 65>>, NanText}

ReadCell(s) == IF s \in NaValues THEN NA ELSE Str(s)

\* pd.read_csv(file): the frame's columns and its rows of cells
ReadCsv(file) ==
    [cols |-> file.cols,
     rows |-> [i \in 1..Len(file.rows) |-> [c \in file.cols |-> ReadCell(file.rows[i][c])]]]

SampleFrame == ReadCsv([present |-> TRUE, cols |-> Need, rows |-> SampleRows])

\* the first required column the frame lacks, "" when it has them all
MissingColumn(cols) ==
    IF \A i \in 1..Len(need) : need[i] \in cols THEN ""
    ELSE need[CHOOSE i \in 1..Len(need) :
                  need[i] \notin cols /\ \A j \in 1..(i - 1) : need[j] \in cols]

\* Series.astype(str): a missing value becomes the text "nan", or stays
\* missing where str is the NA-aware string dtype (keeps_na)
AsTypeStr(cell, keeps_na) ==
    IF cell.na THEN (IF keeps_na THEN NA ELSE Str(NanText)) ELSE cell

StrStrip(cell) == IF cell.na THEN NA ELSE Str(Strip(cell.s))

StrReplacePercent(cell) == IF cell.na THEN NA ELSE Str(RemoveChar(cell.s, 37))

\* lines 98-101: the four cleaned columns of one row
CleanRow(r, keeps_na) ==
    [month |-> StrStrip(AsTypeStr(r.month, keeps_na)),
     sales |-> ToNumeric(r.sales),
     prev |-> ToNumeric(r.prev),
     rate |-> ToNumeric(StrReplacePercent(AsTypeStr(r.rate, keeps_na)))]

\* the rows of s at the positions idx, in that order
Take(s, idx) == [k \in 1..Len(idx) |-> s[idx[k]]]

\* the orders (sequences of positions of keys, each once) that list the
\* positions left in todo by ascending key
RECURSIVE Orders(_, _)
Orders(keys, todo) ==
    IF todo = {} THEN {<<>>}
    ELSE UNION {{<<i>> \o rest : rest \in Orders(keys, todo \ {i})} :
                  i \in {k \in todo : \A j \in todo : ~StrLess(keys[j], keys[k])}}

\* Variant: dropna with "sales" left out of the subset
Complete_NoSales(r) == ~r.month.na /\ ~r.prev.nan /\ ~r.rate.nan

\* dropna(subset=...) keeps a row when none of the four is missing
Complete(r) == ~r.month.na /\ ~r.sales.nan /\ ~r.prev.nan /\ ~r.rate.nan

\* Variant: the rows are also reduced to the first one of each month
RECURSIVE FirstPerMonth(_)
FirstPerMonth(rows) ==
    IF rows = <<>> THEN <<>>
    ELSE LET init == SubSeq(rows, 1, Len(rows) - 1)
             last == rows[Len(rows)]
         IN IF \E j \in 1..Len(init) : init[j].month = last.month
            THEN FirstPerMonth(init)
            ELSE Append(FirstPerMonth(init), last)

DropNa_FirstPerMonth(rows) == FirstPerMonth(SelectSeq(rows, Complete))

DropNa(rows) == SelectSeq(rows, Complete)

\* sort_values("month").reset_index(drop=True): every ascending order of
\* the rows; the default sort is not stable, so rows with equal keys may
\* come out in any order
SortValues(rows) ==
    {Take(rows, idx) :
        idx \in Orders([i \in 1..Len(rows) |-> rows[i].month.s], 1..Len(rows))}

\* the exponent k with unit = 10^k
UnitExp(unit) == CHOOSE k \in 0..6 : Pow10(k) = unit

\* x / unit_div
DivUnit(x, unit) == Shift(x, 0 - UnitExp(unit))

\* Series.cumsum() up to row i
RECURSIVE CumSum(_, _)
CumSum(rows, i) ==
    IF i = 1 THEN rows[1].sales ELSE DecAdd(CumSum(rows, i - 1), rows[i].sales)

\* lines 104-108: the derived columns
Derive(rows, unit) ==
    [i \in 1..Len(rows) |->
        [month |-> rows[i].month.s,
         sales |-> rows[i].sales,
         prev |-> rows[i].prev,
         rate |-> rows[i].rate,
         sales_unit |-> DivUnit(rows[i].sales, unit),
         prev_unit |-> DivUnit(rows[i].prev, unit),
         cum |-> CumSum(rows, i),
         cum_unit |-> DivUnit(CumSum(rows, i), unit)]]

Cleaned(frame, keeps_na) ==
    DropNa([i \in 1..Len(frame.rows) |-> CleanRow(frame.rows[i], keeps_na)])

\* Variant: the derived columns are computed before the sort, so the
\* running sum follows the input order
load_data_CumBeforeSort(file, unit, keeps_na) ==
    LET frame == IF file.present THEN ReadCsv(file) ELSE SampleFrame
        miss == MissingColumn(frame.cols)
        c == Cleaned(frame, keeps_na)
    IN IF miss # ""
       THEN [raised |-> TRUE, column |-> miss, tables |-> {}]
       ELSE [raised |-> FALSE, column |-> "",
             tables |-> {Take(Derive(c, unit), idx) :
                            idx \in Orders([i \in 1..Len(c) |-> c[i].month.s], 1..Len(c))}]

\* load_data(file): the column it raises ValueError for, or the tables it
\* may return
load_data(file, unit, keeps_na) ==
    LET frame == IF file.present THEN ReadCsv(file) ELSE SampleFrame
        miss == MissingColumn(frame.cols)
    IN IF miss # ""
       THEN [raised |-> TRUE, column |-> miss, tables |-> {}]
       ELSE [raised |-> FALSE, column |-> "",
             tables |-> {Derive(s, unit) : s \in SortValues(Cleaned(frame, keeps_na))}]

-----------------------------------------------------------------------------
(* 3) Header and KPI *)

Rat(num, den) == [num |-> num, den |-> den]
NanRat == Rat(NaN, 1)

DecMulInt(d, k) == Dec(d.m * k, d.e)

\* num / den >= k, for den # 0
RatGE(r, k) ==
    LET kd == DecMulInt(Dec(r.den, 0), k) IN
    IF r.den > 0 THEN ~DecLess(r.num, kd) ELSE ~DecLess(kd, r.num)

Column(rows, c) == [i \in 1..Len(rows) |-> rows[i][c]]

RECURSIVE SeqSum(_)
SeqSum(s) == IF s = <<>> THEN Dec(0, 0) ELSE DecAdd(SeqSum(SubSeq(s, 1, Len(s) - 1)), s[Len(s)])

\* Series.mean(): NaN for an empty series
Mean(s) == IF s = <<>> THEN NanRat ELSE Rat(SeqSum(s), Len(s))

\* Series.idxmax(): the first position of the largest value
IdxMax(s) == CHOOSE i \in 1..Len(s) :
    /\ \A j \in 1..Len(s) : ~DecLess(s[i], s[j])
    /\ \A j \in 1..(i - 1) : DecLess(s[j], s[i])

\* Series.idxmin(): the first position of the smallest value
IdxMin(s) == CHOOSE i \in 1..Len(s) :
    /\ \A j \in 1..Len(s) : ~DecLess(s[j], s[i])
    /\ \A j \in 1..(i - 1) : DecLess(s[i], s[j])

\* Series.max(): NaN for an empty series
SeriesMax(s) == IF s = <<>> THEN NaN ELSE s[IdxMax(s)]

\* line 137: (cum_last / goal * 100) if goal > 0 else nan
GoalPct(cum_last, g) == IF g > 0 THEN Rat(Shift(cum_last, 2), g) ELSE NanRat

\* line 148: 100 * cum_last / goal if goal else 0
AttainRate(cum_last, g) == IF g # 0 THEN Rat(Shift(cum_last, 2), g) ELSE Rat(Dec(0, 0), 1)

\* line 149
ColorCls(attain_rate) ==
    IF RatGE(attain_rate, 100) THEN "metric-delta-pos"
    ELSE IF ~RatGE(attain_rate, 80) THEN "metric-delta-neg"
    ELSE ""

\* lines 133-149, for a table with at least one row
Kpis(rows, g) ==
    LET cum_last == rows[Len(rows)].cum
        attain_rate == AttainRate(cum_last, g)
    IN [max_sales |-> SeriesMax(Column(rows, "sales")),
        avg_sales |-> Mean(Column(rows, "sales")),
        avg_rate |-> Mean(Column(rows, "rate")),
        cum_last |-> cum_last,
        goal_pct |-> GoalPct(cum_last, g),
        attain_rate |-> attain_rate,
        color_cls |-> ColorCls(attain_rate)]

NoKpi == [max_sales |-> NaN, avg_sales |-> NanRat, avg_rate |-> NanRat, cum_last |-> NaN,
          goal_pct |-> NanRat, attain_rate |-> NanRat, color_cls |-> ""]

-----------------------------------------------------------------------------
(* 4) PNG export *)

\* download_png(fig, name, key): what it renders.  press: the button fired
\* in this run; image_ok: fig.to_image returned (kaleido is installed)
\* Variant: fig.to_image is called outside any try/except
download_png_NoExcept(key, press, image_ok) ==
    [out |-> <<"popover_" \o key>> \o
             (IF press /\ image_ok THEN <<"download_" \o key>> ELSE <<>>),
     raised |-> press /\ ~image_ok]

\* raised: an exception leaves download_png (the try/except lets none out)
download_png(key, press, image_ok) ==
    [out |-> <<"popover_" \o key>> \o
             (IF ~press THEN <<>>
              ELSE IF image_ok THEN <<"download_" \o key>>
              ELSE <<"warning_" \o key>>),
     raised |-> FALSE]

-----------------------------------------------------------------------------
(* 5) Charts *)

NoLine == [drawn |-> FALSE, y |-> NanRat]
HLine(y) == [drawn |-> TRUE, y |-> y]

\* lines 211-215: the monthly target line
MonthlyTarget(rows, g, unit) ==
    IF g # 0 /\ g > 0
    THEN HLine(Rat(DivUnit(Dec(g, 0), unit), Max2(Len(rows), 1)))
    ELSE NoLine

\* lines 262-265: the annual goal line
GoalLine(g, unit) ==
    IF g # 0 /\ g > 0 THEN HLine(Rat(DivUnit(Dec(g, 0), unit), 1)) ELSE NoLine

chart_line_sales_vs_prev(rows, g, unit) ==
    LET max_idx == IdxMax(Column(rows, "sales"))
        min_idx == IdxMin(Column(rows, "sales"))
    IN [kind |-> "line",
        x |-> Column(rows, "month"),
        y |-> Column(rows, "sales_unit"),
        y2 |-> Column(rows, "prev_unit"),
        hline |-> MonthlyTarget(rows, g, unit),
        marks |-> <<<<rows[max_idx].month, rows[max_idx].sales_unit>>,
                    <<rows[min_idx].month, rows[min_idx].sales_unit>>>>]

chart_bar_rate(rows) ==
    [kind |-> "bar",
     x |-> Column(rows, "month"),
     y |-> Column(rows, "rate"),
     patterns |-> [i \in 1..Len(rows) |-> IF rows[i].rate.m >= 0 THEN "" ELSE "/"]]

chart_cum_with_goal(rows, g, unit) ==
    [kind |-> "cum",
     x |-> Column(rows, "month"),
     y |-> Column(rows, "cum_unit"),
     hline |-> GoalLine(g, unit)]

\* sorted(...) of a set of strings
RECURSIVE Sorted(_)
Sorted(S) ==
    IF S = {} THEN <<>>
    ELSE LET lo == CHOOSE a \in S : \A b \in S : ~StrLess(b, a)
         IN <<lo>> \o Sorted(S \ {lo})

Year(mo) == Slice(mo, 0, 4)
MonthNo(mo) == Slice(mo, 5, 7)

\* one cell of pivot_table(index=year, columns=month number,
\* values=sales_unit, aggfunc="sum"): NaN where no row falls
PivotCell(rows, yr, mn) ==
    LET hit == SelectSeq(rows, LAMBDA r : Year(r.month) = yr /\ MonthNo(r.month) = mn)
    IN IF hit = <<>> THEN NaN ELSE SeqSum(Column(hit, "sales_unit"))

chart_heatmap_sales(rows) ==
    LET index == Sorted({Year(rows[i].month) : i \in 1..Len(rows)})
        columns_sorted == Sorted({MonthNo(rows[i].month) : i \in 1..Len(rows)})
    IN [kind |-> "heatmap",
        x |-> columns_sorted,
        y |-> index,
        z |-> [i \in 1..Len(index) |->
                 [j \in 1..Len(columns_sorted) |-> PivotCell(rows, index[i], columns_sorted[j])]]]

-----------------------------------------------------------------------------
(* The run *)

NoPreview == [shown |-> FALSE, table |-> <<>>, count |-> 0, mean |-> NanRat]

Init ==
    /\ uploaded \in {NoFile} \cup CsvFiles
    /\ unit_div \in UnitOptions
    /\ goal \in GoalValues
    /\ focus \in FocusOptions
    /\ pc = "load"
    /\ has_data = FALSE
    /\ df = <<>>
    /\ out = <<>>
    /\ kpi = NoKpi
    /\ figs = <<>>
    /\ preview = NoPreview
    /\ clicked = ""
    /\ exc = ""

\* lines 111-116: try: df = load_data(uploaded) ... except: st.error(...)
LoadData ==
    /\ pc = "load"
    /\ \E keeps_na \in BOOLEAN :
        LET r == load_data(uploaded, unit_div, keeps_na) IN
        IF r.raised
        THEN /\ has_data' = FALSE
             /\ df' = df
             /\ out' = Append(out, "error")
        ELSE /\ has_data' = TRUE
             /\ df' \in r.tables
             /\ out' = out
    /\ pc' = "header"
    /\ UNCHANGED <<uploaded, unit_div, goal, focus, kpi, figs, preview, clicked, exc>>

\* Variant: the title is drawn and the script goes on without st.stop()
Header_NoStop ==
    /\ pc = "header"
    /\ out' = Append(out, "header")
    /\ pc' = "kpi"
    /\ UNCHANGED <<uploaded, unit_div, goal, focus, has_data, df, kpi, figs, preview, clicked, exc>>

\* lines 121-131: the title, then st.stop() when the load failed
Header ==
    /\ pc = "header"
    /\ out' = Append(out, "header")
    /\ pc' = IF ~has_data THEN "stopped" ELSE "kpi"
    /\ UNCHANGED <<uploaded, unit_div, goal, focus, has_data, df, kpi, figs, preview, clicked, exc>>

\* lines 133-153: the scalars and the four metric cards;
\* df["cum"].iloc[-1] raises IndexError on a table without rows
Kpi ==
    /\ pc = "kpi"
    /\ IF df = <<>>
       THEN /\ pc' = "crashed"
            /\ exc' = "IndexError"
            /\ UNCHANGED <<kpi, out>>
       ELSE /\ kpi' = Kpis(df, goal)
            /\ out' = Append(out, "kpi_cards")
            /\ pc' = "trend"
            /\ exc' = exc
    /\ UNCHANGED <<uploaded, unit_div, goal, focus, has_data, df, figs, preview, clicked>>

\* One section of part 6: build the figure, plot it, offer the export, and
\* st.stop() when it is the only view asked for.  An export button fires in
\* the run its click triggers, so at most one fires per run.
Section(here, mode, tag, key, fig, stops, next) ==
    /\ pc = here
    /\ IF focus \in {"all", mode}
       THEN \E press \in BOOLEAN, image_ok \in BOOLEAN :
              LET png == download_png(key, press, image_ok) IN
              /\ press => clicked = ""
              /\ figs' = Append(figs, fig)
              /\ out' = Append(out, tag) \o png.out
              /\ clicked' = IF press THEN key ELSE clicked
              /\ exc' = IF png.raised THEN "to_image" ELSE exc
              /\ pc' = IF png.raised THEN "crashed"
                       ELSE IF stops /\ focus = mode THEN "stopped"
                       ELSE next
       ELSE /\ pc' = next
            /\ UNCHANGED <<figs, out, clicked, exc>>
    /\ UNCHANGED <<uploaded, unit_div, goal, focus, has_data, df, kpi, preview>>

\* lines 299-306
RenderTrend ==
    Section("trend", "trend", "chart_line", "dl1",
            chart_line_sales_vs_prev(df, goal, unit_div), TRUE, "rate")

\* lines 308-313
RenderRate ==
    Section("rate", "rate", "chart_bar", "dl2", chart_bar_rate(df), TRUE, "cum")

\* lines 315-320
RenderCum ==
    Section("cum", "cum", "chart_cum", "dl3",
            chart_cum_with_goal(df, goal, unit_div), TRUE, "heatmap")

\* lines 322-325: no st.stop() follows the heatmap
RenderHeatmap ==
    Section("heatmap", "heatmap", "chart_heatmap", "dl4",
            chart_heatmap_sales(df), FALSE, "preview")

\* df[[month, sales, prev, rate]] and df[sales].describe()
PreviewOf(rows) ==
    [shown |-> TRUE,
     table |-> [i \in 1..Len(rows) |->
                  [c \in Need |-> rows[i][c]]],
     count |-> Len(rows),
     mean |-> Mean(Column(rows, "sales"))]

\* lines 330-333
Preview ==
    /\ pc = "preview"
    /\ preview' = PreviewOf(df)
    /\ out' = Append(out, "preview")
    /\ pc' = "footer"
    /\ UNCHANGED <<uploaded, unit_div, goal, focus, has_data, df, kpi, figs, clicked, exc>>

\* lines 338-346
Footer ==
    /\ pc = "footer"
    /\ out' = Append(out, "footer")
    /\ pc' = "done"
    /\ UNCHANGED <<uploaded, unit_div, goal, focus, has_data, df, kpi, figs, preview, clicked, exc>>

Next ==
    \/ LoadData
    \/ Header
    \/ Kpi
    \/ RenderTrend
    \/ RenderRate
    \/ RenderCum
    \/ RenderHeatmap
    \/ Preview
    \/ Footer

Spec == Init /\ [][Next]_vars

\* the run is over: it ran to the end, called st.stop(), or raised
Ended == pc \in {"done", "stopped", "crashed"}

-----------------------------------------------------------------------------
(* Vocabulary of the properties *)

Has(s, x) == \E i \in 1..Len(s) : s[i] = x

Count(s, x) == Cardinality({i \in 1..Len(s) : s[i] = x})

\* a and b hold the same elements, each as often
SameBag(a, b) == Len(a) = Len(b) /\ \A i \in 1..Len(a) : Count(a, a[i]) = Count(b, a[i])

\* the frame has the four required columns
FullHeader == ~uploaded.present \/ uploaded.cols = Need

\* the data rows of the input, as text (read only under FullHeader)
InputRows == IF uploaded.present THEN uploaded.rows ELSE SampleRows

\* the number a text denotes, NaN when it denotes none
NumText(s) == ToNumeric(Str(s))

RateText(s) == RemoveChar(s, 37)

\* sales and prev parse as numbers, rate does once "%" is removed
NumericOk(r) ==
    ~NumText(r.sales).nan /\ ~NumText(r.prev).nan /\ ~NumText(RateText(r.rate)).nan

\* the row holds, in a numeric column, a value that is no number
Unparsable(r) ==
    \/ r.sales \notin NaValues /\ NumText(r.sales).nan
    \/ r.prev \notin NaValues /\ NumText(r.prev).nan
    \/ r.rate \notin NaValues /\ NumText(RateText(r.rate)).nan

MonthMissing(r) == r.month \in NaValues

\* the four input columns of a row of the result, from the row's text
Parsed(r) ==
    [month |-> IF MonthMissing(r) THEN NanText ELSE Strip(r.month),
     sales |-> NumText(r.sales),
     prev |-> NumText(r.prev),
     rate |-> NumText(RateText(r.rate))]

ParsedAll(rows) == [i \in 1..Len(rows) |-> Parsed(rows[i])]

\* the input rows that parse, in input order; those without a month too
\* when with_missing_month
Parsable(with_missing_month) ==
    ParsedAll(SelectSeq(InputRows,
                        LAMBDA r : NumericOk(r) /\ (with_missing_month \/ ~MonthMissing(r))))

\* the four input columns of the result
Core(rows) == [i \in 1..Len(rows) |-> [c \in Need |-> rows[i][c]]]

Ascending(rows) ==
    \A i \in 1..Len(rows) : \A j \in (i + 1)..Len(rows) : ~StrLess(rows[j].month, rows[i].month)

\* the result holds a row whose month is the text "nan"
KeptNanMonth == \E i \in 1..Len(df) : df[i].month = NanText

\* what load_data returns: the rows that parse, those without a month being
\* kept (as month "nan") or dropped alike
Loaded == SameBag(Core(df), Parsable(KeptNanMonth))

ChartTags == {"chart_line", "chart_bar", "chart_cum", "chart_heatmap"}
ExportKeys == {"dl1", "dl2", "dl3", "dl4"}
ExportResults == {"download_" \o k : k \in ExportKeys} \cup {"warning_" \o k : k \in ExportKeys}

Charts(s) == SelectSeq(s, LAMBDA x : x \in ChartTags)

Fig(kind) == SelectSeq(figs, LAMBDA f : f.kind = kind)

\* load_data has just returned df to the script
Returned == has_data /\ pc = "header"

\* No section after the load assigns df: the table the KPIs, the charts and
\* the preview read is the one load_data returned.
TableFrozen == [][pc # "load" => df' = df]_vars

-----------------------------------------------------------------------------
(* Properties *)

\* C1: when the uploaded table lacks one of the four required columns, the
\* load fails, the error message is the first thing rendered, and the run
\* stops after the title: no KPI card, no chart and no preview is rendered.
C1_MissingColumnHalts ==
    (uploaded.present /\ uploaded.cols # Need /\ pc # "load") =>
        /\ ~has_data
        /\ pc \in {"header", "stopped"}
        /\ Head(out) = "error"
        /\ \A i \in 1..Len(out) : out[i] \in {"error", "header"}
        /\ kpi = NoKpi /\ figs = <<>> /\ ~preview.shown
        /\ Ended => out = <<"error", "header">>

C1_Witness ==
    /\ pc = "stopped"
    /\ uploaded.present /\ uploaded.cols = Need \ {"prev"} /\ Len(uploaded.rows) > 0
    /\ out = <<"error", "header">>

\* C2 (as claimed): when a row holds a value in sales, prev or rate that is
\* no number, the load fails: has_data is false and an error is reported.
C2_UnparsableHalts ==
    (pc # "load" /\ FullHeader /\ \E i \in 1..Len(InputRows) : Unparsable(InputRows[i])) =>
        ~has_data /\ Has(out, "error")

\* C2 (amended): when a row holds a value in sales, prev or rate that is no
\* number, the load still succeeds and reports no error; the returned table
\* holds the rows that parse and not that row, and the run does not stop at
\* the title.
C2_UnparsableRowsDropped ==
    (pc # "load" /\ FullHeader /\ \E i \in 1..Len(InputRows) : Unparsable(InputRows[i])) =>
        /\ has_data /\ ~Has(out, "error")
        /\ pc = "header" => Loaded
        /\ Len(df) < Len(InputRows)
        /\ \A i \in 1..Len(df) : ~df[i].sales.nan /\ ~df[i].prev.nan /\ ~df[i].rate.nan
        /\ pc = "stopped" => figs # <<>>

C2_Witness ==
    /\ pc = "done"
    /\ Len(InputRows) = 2 /\ Unparsable(InputRows[1]) /\ ~Unparsable(InputRows[2])
    /\ Len(df) = 1
    /\ Has(out, "kpi_cards")

\* C3: after a successful load, a run that has ended has rendered the charts
\* its view mode selects: all four, in the order line, bar, cumulative,
\* heatmap, in mode "all"; the one chart of the mode otherwise.
C3_ChartsBySelector ==
    (Ended /\ has_data) =>
        Charts(out) =
            CASE focus = "all" -> <<"chart_line", "chart_bar", "chart_cum", "chart_heatmap">>
              [] focus = "trend" -> <<"chart_line">>
              [] focus = "rate" -> <<"chart_bar">>
              [] focus = "cum" -> <<"chart_cum">>
              [] focus = "heatmap" -> <<"chart_heatmap">>

\* What holds of the charts: the claim of C3 for every table in which a row
\* survives the cleaning.
ChartsBySelectorGivenRows ==
    (Ended /\ has_data /\ df # <<>>) => C3_ChartsBySelector

\* C4: after a successful load, a run that has ended has rendered the data
\* preview panel, whatever the view mode.  (Read here for the tables in
\* which a row survives the cleaning, where no exception ends the run.)
C4_PreviewRendered ==
    (Ended /\ has_data /\ df # <<>>) => preview.shown /\ Has(out, "preview")

\* What holds of the preview: it is rendered exactly in the modes "all" and
\* "heatmap", for every table in which a row survives the cleaning.
PreviewOnlyAfterHeatmap ==
    (Ended /\ has_data /\ df # <<>>) => (preview.shown <=> focus \in {"all", "heatmap"})

\* C5 (as claimed): the table returned by load_data holds at most one row
\* per month.  (Read here for the rows that have a month.)
C5_OneRowPerMonth ==
    has_data =>
        \A i \in 1..Len(df) : \A j \in 1..Len(df) :
            (df[i].month = df[j].month /\ df[i].month # NanText) => i = j

\* C5 (amended): load_data does not aggregate: the returned table holds one
\* row per input row that parses, so a month holds as many rows as the input
\* has for it, and the line, bar and cumulative charts plot every row; only
\* the heatmap aggregates: it has one cell per (year, month number), and its
\* cells add up to the sum of sales_unit over all rows.
C5_OnlyHeatmapAggregates ==
    /\ Returned =>
          LET rows == Parsable(KeptNanMonth) IN
          /\ Len(df) = Len(rows)
          /\ \A i \in 1..Len(df) :
                Count(Column(df, "month"), df[i].month) = Count(Column(rows, "month"), df[i].month)
    /\ has_data =>
        /\ \A k \in 1..Len(figs) :
              /\ figs[k].kind \in {"line", "bar", "cum"} =>
                    figs[k].x = Column(df, "month") /\ Len(figs[k].y) = Len(df)
              /\ figs[k].kind = "heatmap" =>
                    LET f == figs[k]
                        cells == {<<i, j>> \in (1..Len(f.y)) \X (1..Len(f.x)) : ~f.z[i][j].nan}
                        keys == {<<Year(df[i].month), MonthNo(df[i].month)>> : i \in 1..Len(df)}
                    IN /\ \A i \in 1..Len(f.x) : Count(f.x, f.x[i]) = 1
                       /\ \A i \in 1..Len(f.y) : Count(f.y, f.y[i]) = 1
                       /\ {<<f.y[c[1]], f.x[c[2]]>> : c \in cells} = keys
                       /\ Cardinality(cells) = Cardinality(keys)
                       /\ SeqSum([n \in 1..(Len(f.y) * Len(f.x)) |->
                                    LET z == f.z[((n - 1) \div Len(f.x)) + 1][((n - 1) % Len(f.x)) + 1]
                                    IN IF z.nan THEN Dec(0, 0) ELSE z])
                              = SeqSum(Column(df, "sales_unit"))

C5_Witness ==
    /\ pc = "done" /\ focus = "all"
    /\ Len(df) = 2 /\ df[1].month = df[2].month
    /\ Len(Fig("line")) = 1 /\ Len(Fig("line")[1].x) = 2
    /\ Len(Fig("heatmap")) = 1 /\ Len(Fig("heatmap")[1].x) = 1 /\ Len(Fig("heatmap")[1].y) = 1

\* C6: a failed PNG export shows a warning and offers no download for that
\* chart, raises nothing, and leaves the rest of the run as it is without
\* any export: the run renders the elements the view mode asks for.
C6_ExportFailureHarmless ==
    /\ \A k \in ExportKeys :
          Has(out, "warning_" \o k) =>
              /\ ~Has(out, "download_" \o k)
              /\ exc = "" /\ pc # "crashed"
    /\ exc # "to_image"
    /\ Ended =>
          SelectSeq(out, LAMBDA x : x \notin ExportResults) =
              IF ~has_data THEN <<"error", "header">>
              ELSE IF df = <<>> THEN <<"header">>
              ELSE <<"header", "kpi_cards">>
                   \o (IF focus \in {"all", "trend"} THEN <<"chart_line", "popover_dl1">> ELSE <<>>)
                   \o (IF focus \in {"all", "rate"} THEN <<"chart_bar", "popover_dl2">> ELSE <<>>)
                   \o (IF focus \in {"all", "cum"} THEN <<"chart_cum", "popover_dl3">> ELSE <<>>)
                   \o (IF focus \in {"all", "heatmap"} THEN <<"chart_heatmap", "popover_dl4">> ELSE <<>>)
                   \o (IF focus \in {"all", "heatmap"} THEN <<"preview", "footer">> ELSE <<>>)

C6_Witness ==
    /\ pc = "done" /\ focus = "all"
    /\ Has(out, "warning_dl2") /\ ~Has(out, "download_dl2")
    /\ Len(figs) = 4 /\ preview.shown /\ Has(out, "footer")

\* C7: for a table with the four columns, load_data returns exactly the
\* input rows whose sales and prev parse and whose rate parses once "%" is
\* removed, each once, ascending by stripped month; a row whose month is
\* missing is not among them.
C7_ReturnsParsedRows ==
    (Returned /\ FullHeader) => SameBag(Core(df), Parsable(FALSE)) /\ Ascending(df)

\* What holds of load_data: the claim of C7 but for the rows whose month is
\* missing, which are returned with the month "nan" where astype(str) turns
\* a missing value into text.
ReturnsParsedRowsOrNan ==
    (Returned /\ FullHeader) => Loaded /\ Ascending(df)

\* C8: in the returned table the running sum at row i is the sum of sales
\* over rows 1..i in ascending month order, so the last one, the cumulative
\* KPI, is the total of sales over the retained rows taken in input order.
C8_CumulativeSum ==
    /\ Returned =>
          /\ Ascending(df)
          /\ \A i \in 1..Len(df) : df[i].cum = SeqSum(Column(SubSeq(df, 1, i), "sales"))
          /\ df # <<>> => df[Len(df)].cum = SeqSum(Column(Parsable(KeptNanMonth), "sales"))
    /\ Has(out, "kpi_cards") => kpi.cum_last = df[Len(df)].cum

C8_Witness ==
    /\ Has(out, "kpi_cards")
    /\ uploaded.present /\ Len(df) = 2
    /\ StrLess(df[1].month, df[2].month)
    /\ Parsable(FALSE) # <<>> /\ Parsable(FALSE)[1].month = df[2].month
    /\ df[1].cum # Parsable(FALSE)[1].sales
    /\ kpi.cum_last = df[2].cum

\* C9: once load_data has returned, the run raises no unhandled exception.
C9_NoUnhandledException ==
    has_data => exc = "" /\ pc # "crashed"

\* C10: for a goal that is zero or negative the attainment rate is 0 and
\* neither the line chart nor the cumulative chart has a goal line; for a
\* positive goal the rate is 100 * cum_last / goal and both lines are drawn.
C10_GoalGuards ==
    Has(out, "kpi_cards") =>
        /\ goal <= 0 =>
              /\ kpi.attain_rate = Rat(Dec(0, 0), 1)
              /\ \A k \in 1..Len(figs) : figs[k].kind \in {"line", "cum"} => ~figs[k].hline.drawn
        /\ goal > 0 =>
              /\ kpi.attain_rate = Rat(Shift(kpi.cum_last, 2), goal)
              /\ \A k \in 1..Len(figs) : figs[k].kind \in {"line", "cum"} => figs[k].hline.drawn

\* What holds of the goal: the claim of C10 for a goal that is zero or
\* positive; a negative goal draws no line either.
GoalGuardsFromZero ==
    Has(out, "kpi_cards") =>
        /\ goal >= 0 => C10_GoalGuards
        /\ goal < 0 => \A k \in 1..Len(figs) : figs[k].kind \in {"line", "cum"} => ~figs[k].hline.drawn

====
